---- MODULE Spec2Model ----
(***************************************************************************)
(* Batch-accumulation engine of Go Pipeline v2 as documented in this       *)
(* repository: producers -> buffered data channel -> accumulator loop ->   *)
(* addToBatch -> isBatchFull / timer -> flush function -> error channel.   *)
(***************************************************************************)
EXTENDS Integers, Sequences, FiniteSets, TLC

\* ---------------------------------------------------------------- bounds
MaxWrites == 3        \* items the producers write in one run
MaxKey == 2           \* distinct values the key function can return
MaxTicks == 1         \* timer ticks the loop observes in one run
MaxFlushSize == 3     \* largest FlushSize a configuration is given
MaxBufferSize == 1    \* largest BufferSize a configuration is given
ErrChanSize == 1      \* size passed to ErrorChan(size)
NumProducers == 2     \* goroutines writing to the data channel

\* the values the key function returns; the standard pipeline has no key
\* function, its items all carry key 1
KeysOf(s) == IF s = "standard" THEN {1} ELSE 1..MaxKey

\* the goroutines that write; which goroutine wrote an item makes no
\* difference to a deduplication batch, so one producer feeds that pipeline
ProducersOf(s) == IF s = "standard" THEN 1..NumProducers ELSE {1}

\* the most recent call whose result the caller looks at, none so far
NoCall == [op |-> "none", err |-> "nil"]

VARIABLES strategy, config, requested, lastCall, sent, published,
          dataChan, closed, written, cancelled,
          pc, final, batchData, calls, inflight, errChan, errClosed,
          metrics, ticks, result

vars == <<strategy, config, requested, lastCall, sent, published,
          dataChan, closed, written, cancelled,
          pc, final, batchData, calls, inflight, errChan, errClosed,
          metrics, ticks, result>>

\* ---------------------------------------------------- batching strategy
\* An item carries the position at which it was written (its identity) and
\* the value its key function returns.
KeyFunc(item) == item.key

initBatchData(s) == IF s = "standard" THEN <<>> ELSE {}

\* the new item is put in front of the pending ones
addToBatchStandardPrepend(b, item) == <<item>> \o b

\* standard pipeline: the batch is a slice, the item is appended to its tail
addToBatchStandard(b, item) == Append(b, item)

\* variant: an item whose key is pending is stored next to the pending one
addToBatchDedupKeepBoth(b, item) == b \cup {item}

\* keep-first: an item whose key is already pending is dropped
addToBatchDedupKeepFirst(b, item) ==
    IF \E x \in b : KeyFunc(x) = KeyFunc(item) THEN b ELSE b \cup {item}

\* deduplication pipeline: the batch is a map from key to item, an item added
\* later overwrites the one stored under the same key
addToBatchDedup(b, item) ==
    {x \in b : KeyFunc(x) # KeyFunc(item)} \cup {item}

addToBatch(s, b, item) ==
    IF s = "standard" THEN addToBatchStandard(b, item)
    ELSE addToBatchDedup(b, item)

batchCount(s, b) == IF s = "standard" THEN Len(b) ELSE Cardinality(b)

\* off by one: full only once the threshold is exceeded
isBatchFullLate(s, b, flushSize) == batchCount(s, b) > flushSize

isBatchFull(s, b, flushSize) == batchCount(s, b) >= flushSize

isBatchEmpty(s, b) == batchCount(s, b) = 0

\* the orders in which the items of a batch can reach the flush function:
\* the slice itself (standard), any order of the map's values (dedup)
drain(s, b) ==
    IF s = "standard" THEN {b}
    ELSE {f \in [1..Cardinality(b) -> b] : \A x \in b : \E i \in DOMAIN f : f[i] = x}

batchItems(s, b) == IF s = "standard" THEN {b[i] : i \in DOMAIN b} ELSE b

\* ---------------------------------------------------------- initial state
Init ==
    /\ strategy \in {"standard", "dedup"}
    /\ config \in [BufferSize : 1..MaxBufferSize, FlushSize : 1..MaxFlushSize,
                   FlushInterval : {1}]
    /\ requested = config
    /\ lastCall = NoCall
    /\ sent = [p \in ProducersOf(strategy) |-> 0]
    /\ published = <<>>
    /\ dataChan = <<>>
    /\ closed = FALSE
    /\ written = <<>>
    /\ cancelled = FALSE
    /\ pc = "Created"
    /\ final = FALSE
    /\ batchData = initBatchData(strategy)
    /\ calls = <<>>
    /\ inflight = 0
    /\ errChan = <<>>
    /\ errClosed = FALSE
    /\ metrics = [itemsAccepted |-> 0, batchesFlushed |-> 0, flushErrors |-> 0]
    /\ ticks = 0
    /\ result = "none"

InitStandard == Init /\ strategy = "standard"

InitDedup == Init /\ strategy = "dedup"

\* -------------------------------------------------------------- producers
\* items the loop has taken out of the data channel so far
received == Len(written) - Len(dataChan)

\* variant: producers that do not synchronise on the channel; a write that
\* finds the buffer full stores its item over the newest queued one
WriteUnsynchronised(p, k) ==
    /\ ~closed
    /\ Len(written) < MaxWrites
    /\ LET item == [id |-> Len(written) + 1, key |-> k,
                    src |-> p, n |-> sent[p] + 1] IN
          /\ dataChan' = IF Len(dataChan) < config.BufferSize
                          THEN Append(dataChan, item)
                          ELSE [dataChan EXCEPT ![Len(dataChan)] = item]
          /\ written' = Append(written, item)
    /\ sent' = [sent EXCEPT ![p] = @ + 1]
    /\ UNCHANGED <<strategy, config, requested, lastCall, published,
                   closed, cancelled, pc, final, batchData,
                   calls, inflight, errChan, errClosed, metrics, ticks, result>>

\* variant: a write that finds the buffer full returns at once, the item is
\* reported as written and dropped
WriteDropsWhenFull(p, k) ==
    /\ ~closed
    /\ Len(written) < MaxWrites
    /\ LET item == [id |-> Len(written) + 1, key |-> k,
                    src |-> p, n |-> sent[p] + 1] IN
          /\ dataChan' = IF Len(dataChan) < config.BufferSize
                          THEN Append(dataChan, item)
                          ELSE dataChan
          /\ written' = Append(written, item)
    /\ sent' = [sent EXCEPT ![p] = @ + 1]
    /\ UNCHANGED <<strategy, config, requested, lastCall, published,
                   closed, cancelled, pc, final, batchData,
                   calls, inflight, errChan, errClosed, metrics, ticks, result>>

\* dataChan <- item by producer p: blocks while the buffer holds BufferSize
\* items
Write(p, k) ==
    /\ ~closed
    /\ Len(written) < MaxWrites
    /\ Len(dataChan) < config.BufferSize
    /\ LET item == [id |-> Len(written) + 1, key |-> k,
                    src |-> p, n |-> sent[p] + 1] IN
          /\ dataChan' = Append(dataChan, item)
          /\ written' = Append(written, item)
    /\ sent' = [sent EXCEPT ![p] = @ + 1]
    /\ UNCHANGED <<strategy, config, requested, lastCall, published,
                   closed, cancelled, pc, final, batchData,
                   calls, inflight, errChan, errClosed, metrics, ticks, result>>

\* close(dataChan): the writer signals the end of the input
CloseDataChan ==
    /\ ~closed
    /\ closed' = TRUE
    /\ UNCHANGED <<strategy, config, requested, lastCall, sent, published,
                   dataChan, written, cancelled, pc, final,
                   batchData, calls, inflight, errChan, errClosed, metrics,
                   ticks, result>>

\* cancel() of the context handed to AsyncPerform / SyncPerform
Cancel ==
    /\ ~cancelled
    /\ cancelled' = TRUE
    /\ UNCHANGED <<strategy, config, requested, lastCall, sent, published,
                   dataChan, closed, written, pc, final,
                   batchData, calls, inflight, errChan, errClosed, metrics,
                   ticks, result>>

\* for err := range errorChan: the consumer takes the oldest error
ReadError ==
    /\ errChan # <<>>
    /\ errChan' = Tail(errChan)
    /\ UNCHANGED <<strategy, config, requested, lastCall, sent, published,
                   dataChan, closed, written, cancelled, pc,
                   final, batchData, calls, inflight, errClosed, metrics,
                   ticks, result>>

\* ------------------------------------------------------- accumulator loop
\* AsyncPerform / SyncPerform: the loop starts waiting for its first event
Start ==
    /\ pc = "Created"
    /\ pc' = "Select"
    /\ UNCHANGED <<strategy, config, requested, lastCall, sent, published,
                   dataChan, closed, written, cancelled,
                   final, batchData, calls, inflight, errChan, errClosed,
                   metrics, ticks, result>>

\* the loop returns: the error channel is closed, the run has its result
Stop(r) ==
    /\ pc' = "Stopped"
    /\ result' = r
    /\ errClosed' = TRUE

\* the flush function runs on its own goroutine, the loop goes on waiting
StartFlushAsync(b, trigger, upto) ==
    /\ \E items \in drain(strategy, b) :
          calls' = Append(calls, [items |-> items, trigger |-> trigger,
                                  upto |-> upto, outcome |-> "running"])
    /\ inflight' = inflight + 1
    /\ pc' = "Select"

\* Execute Batch Processing -> Call Flush Function: the batch b is handed to
\* the flush function, the loop waits for it to return
StartFlush(b, trigger, upto) ==
    /\ \E items \in drain(strategy, b) :
          calls' = Append(calls, [items |-> items, trigger |-> trigger,
                                  upto |-> upto, outcome |-> "running"])
    /\ inflight' = inflight + 1
    /\ pc' = "Flushing"

\* variant: the loop reads a whole batch at a time and waits until FlushSize
\* items are queued
ReceiveItemWhenBatchQueued ==
    /\ pc = "Select"
    /\ dataChan # <<>>
    /\ Len(dataChan) >= config.FlushSize
    /\ LET b == addToBatch(strategy, batchData, Head(dataChan)) IN
          /\ dataChan' = Tail(dataChan)
          /\ batchData' = b
          /\ IF isBatchFull(strategy, b, config.FlushSize)
             THEN StartFlush(b, "size", received + 1)
             ELSE UNCHANGED <<pc, calls, inflight>>
    /\ UNCHANGED <<strategy, config, requested, lastCall, sent, published,
                   closed, written, cancelled, final,
                   errChan, errClosed, metrics, ticks, result>>

\* variant: the loop body also runs after the loop has returned
ReceiveItemAfterExit ==
    /\ pc \in {"Select", "Stopped"}
    /\ dataChan # <<>>
    /\ LET b == addToBatch(strategy, batchData, Head(dataChan)) IN
          /\ dataChan' = Tail(dataChan)
          /\ batchData' = b
          /\ IF isBatchFull(strategy, b, config.FlushSize)
             THEN StartFlush(b, "size", received + 1)
             ELSE UNCHANGED <<pc, calls, inflight>>
    /\ UNCHANGED <<strategy, config, requested, lastCall, sent, published,
                   closed, written, cancelled, final,
                   errChan, errClosed, metrics, ticks, result>>

\* an item arrives: add it to the batch, flush at once when the batch is full
ReceiveItem ==
    /\ pc = "Select"
    /\ dataChan # <<>>
    /\ LET b == addToBatch(strategy, batchData, Head(dataChan)) IN
          /\ dataChan' = Tail(dataChan)
          /\ batchData' = b
          /\ IF isBatchFull(strategy, b, config.FlushSize)
             THEN StartFlush(b, "size", received + 1)
             ELSE UNCHANGED <<pc, calls, inflight>>
    /\ UNCHANGED <<strategy, config, requested, lastCall, sent, published,
                   closed, written, cancelled, final,
                   errChan, errClosed, metrics, ticks, result>>

\* variant: the ticker is not stopped when the loop returns
TimerTickAfterStop ==
    /\ pc \in {"Select", "Stopped"}
    /\ ticks < MaxTicks
    /\ ticks' = ticks + 1
    /\ IF isBatchEmpty(strategy, batchData)
       THEN UNCHANGED <<pc, calls, inflight>>
       ELSE StartFlush(batchData, "timer", received)
    /\ UNCHANGED <<strategy, config, requested, lastCall, sent, published,
                   dataChan, closed, written, cancelled,
                   final, batchData, errChan, errClosed, metrics, result>>

\* the timer only rearms, whatever the batch holds
TimerTickNoFlush ==
    /\ pc = "Select"
    /\ ticks < MaxTicks
    /\ ticks' = ticks + 1
    /\ UNCHANGED <<strategy, config, requested, lastCall, sent, published,
                   dataChan, closed, written, cancelled, pc,
                   final, batchData, calls, inflight, errChan, errClosed,
                   metrics, result>>

\* the timer flushes whatever the batch holds, an empty batch included
TimerTickAlways ==
    /\ pc = "Select"
    /\ ticks < MaxTicks
    /\ ticks' = ticks + 1
    /\ StartFlush(batchData, "timer", received)
    /\ UNCHANGED <<strategy, config, requested, lastCall, sent, published,
                   dataChan, closed, written, cancelled,
                   final, batchData, errChan, errClosed, metrics, result>>

\* the timer fires: an empty batch is left alone, a non-empty one is flushed
TimerTick ==
    /\ pc = "Select"
    /\ ticks < MaxTicks
    /\ ticks' = ticks + 1
    /\ IF isBatchEmpty(strategy, batchData)
       THEN UNCHANGED <<pc, calls, inflight>>
       ELSE StartFlush(batchData, "timer", received)
    /\ UNCHANGED <<strategy, config, requested, lastCall, sent, published,
                   dataChan, closed, written, cancelled,
                   final, batchData, errChan, errClosed, metrics, result>>

\* the loop returns on close without looking at the pending batch
ReceiveCloseNoFlush ==
    /\ pc = "Select"
    /\ closed
    /\ dataChan = <<>>
    /\ final' = TRUE
    /\ Stop("ok")
    /\ UNCHANGED <<strategy, config, requested, lastCall, sent, published,
                   dataChan, closed, written, cancelled,
                   batchData, calls, inflight, errChan, metrics, ticks>>

\* variant: the loop stops as soon as it sees the close, with items still
\* queued
ReceiveCloseNoDrain ==
    /\ pc = "Select"
    /\ closed
    /\ final' = TRUE
    /\ IF isBatchEmpty(strategy, batchData)
       THEN Stop("ok") /\ UNCHANGED <<calls, inflight>>
       ELSE StartFlush(batchData, "close", received)
            /\ UNCHANGED <<result, errClosed>>
    /\ UNCHANGED <<strategy, config, requested, lastCall, sent, published,
                   dataChan, closed, written, cancelled,
                   batchData, errChan, metrics, ticks>>

\* variant: the error channel is closed as soon as the close is seen, before
\* the final flush
ReceiveCloseClosesErrors ==
    /\ pc = "Select"
    /\ closed
    /\ dataChan = <<>>
    /\ final' = TRUE
    /\ errClosed' = TRUE
    /\ IF isBatchEmpty(strategy, batchData)
       THEN pc' = "Stopped" /\ result' = "ok" /\ UNCHANGED <<calls, inflight>>
       ELSE StartFlush(batchData, "close", received)
            /\ UNCHANGED <<result>>
    /\ UNCHANGED <<strategy, config, requested, lastCall, sent, published,
                   dataChan, closed, written, cancelled,
                   batchData, errChan, metrics, ticks>>

\* the data channel is closed and drained: process the remaining items, if
\* any, then clean up
ReceiveClose ==
    /\ pc = "Select"
    /\ closed
    /\ dataChan = <<>>
    /\ final' = TRUE
    /\ IF isBatchEmpty(strategy, batchData)
       THEN Stop("ok") /\ UNCHANGED <<calls, inflight>>
       ELSE StartFlush(batchData, "close", received)
            /\ UNCHANGED <<result, errClosed>>
    /\ UNCHANGED <<strategy, config, requested, lastCall, sent, published,
                   dataChan, closed, written, cancelled,
                   batchData, errChan, metrics, ticks>>

\* variant: the pending batch is handed to the flush function on the way out
ObserveCancelFlush ==
    /\ pc = "Select"
    /\ cancelled
    /\ Stop("cancelled")
    /\ IF isBatchEmpty(strategy, batchData)
       THEN UNCHANGED <<calls, inflight>>
       ELSE /\ \E items \in drain(strategy, batchData) :
                  calls' = Append(calls, [items |-> items, trigger |-> "cancel",
                                          upto |-> received,
                                          outcome |-> "running"])
            /\ inflight' = inflight + 1
    /\ UNCHANGED <<strategy, config, requested, lastCall, sent, published,
                   dataChan, closed, written, cancelled,
                   final, batchData, errChan, metrics, ticks>>

\* ctx.Done(): the loop returns the cancellation error, no flush is started
ObserveCancel ==
    /\ pc = "Select"
    /\ cancelled
    /\ Stop("cancelled")
    /\ UNCHANGED <<strategy, config, requested, lastCall, sent, published,
                   dataChan, closed, written, cancelled,
                   final, batchData, calls, inflight, errChan, metrics, ticks>>

\* --------------------------------------------------------- flush executor
\* the call that is running, marked with the way it returned
Returned(outcome) ==
    [calls EXCEPT ![Len(calls)].outcome = outcome]

\* variant: the error of a failed final flush becomes the result of the run
AfterFlushReturnsError(failed) ==
    /\ batchData' = initBatchData(strategy)
    /\ IF final
       THEN Stop(IF failed THEN "error" ELSE "ok")
       ELSE pc' = "Select" /\ UNCHANGED <<result, errClosed>>

\* a failed batch is kept for another attempt
AfterFlushRetry(failed) ==
    /\ batchData' = IF failed THEN batchData ELSE initBatchData(strategy)
    /\ IF final
       THEN Stop("ok")
       ELSE pc' = "Select" /\ UNCHANGED <<result, errClosed>>

\* a failed batch ends the loop
AfterFlushStopOnError(failed) ==
    /\ batchData' = initBatchData(strategy)
    /\ IF final \/ failed
       THEN Stop(IF failed THEN "error" ELSE "ok")
       ELSE pc' = "Select" /\ UNCHANGED <<result, errClosed>>

\* Reset Batch, then wait for more data; after the final flush, clean up
AfterFlush(failed) ==
    /\ batchData' = initBatchData(strategy)
    /\ IF final
       THEN Stop("ok")
       ELSE pc' = "Select" /\ UNCHANGED <<result, errClosed>>

\* variant: the items of a failed batch are counted as accepted
recordFlushCountsFailed(m, ok, n) ==
    IF ok
    THEN [m EXCEPT !.batchesFlushed = @ + 1, !.itemsAccepted = @ + n]
    ELSE [m EXCEPT !.flushErrors = @ + 1, !.itemsAccepted = @ + n]

\* counters after a flush of n items has succeeded (ok) or failed
recordFlush(m, ok, n) ==
    IF ok
    THEN [m EXCEPT !.batchesFlushed = @ + 1, !.itemsAccepted = @ + n]
    ELSE [m EXCEPT !.flushErrors = @ + 1]

\* the flush function returns nil
FlushReturnOk ==
    /\ pc = "Flushing"
    /\ inflight' = inflight - 1
    /\ calls' = Returned("ok")
    /\ metrics' = recordFlush(metrics, TRUE, Len(calls[Len(calls)].items))
    /\ AfterFlush(FALSE)
    /\ UNCHANGED <<strategy, config, requested, lastCall, sent, published,
                   dataChan, closed, written, cancelled,
                   final, errChan, ticks>>

\* variant: a non-blocking send that drops the error when the channel is full
FlushReturnErrDrop ==
    /\ pc = "Flushing"
    /\ inflight' = inflight - 1
    /\ calls' = Returned("err")
    /\ IF Len(errChan) < ErrChanSize
       THEN /\ errChan' = Append(errChan, Len(calls))
            /\ published' = Append(published, Len(calls))
       ELSE UNCHANGED <<errChan, published>>
    /\ metrics' = recordFlush(metrics, FALSE, Len(calls[Len(calls)].items))
    /\ AfterFlush(TRUE)
    /\ UNCHANGED <<strategy, config, requested, lastCall, sent,
                   dataChan, closed, written, cancelled,
                   final, ticks>>

\* the flush function returns an error: it goes to the error channel; when
\* the channel's buffer is full the loop blocks in the send
FlushReturnErr ==
    /\ pc = "Flushing"
    /\ inflight' = inflight - 1
    /\ calls' = Returned("err")
    /\ IF Len(errChan) < ErrChanSize
       THEN /\ errChan' = Append(errChan, Len(calls))
            /\ published' = Append(published, Len(calls))
            /\ metrics' = recordFlush(metrics, FALSE, Len(calls[Len(calls)].items))
            /\ AfterFlush(TRUE)
       ELSE /\ pc' = "Publishing"
            /\ UNCHANGED <<errChan, published, metrics, batchData, result,
                         errClosed>>
    /\ UNCHANGED <<strategy, config, requested, lastCall, sent,
                   dataChan, closed, written, cancelled,
                   final, ticks>>

\* variant: a send that has waited on the full channel is abandoned and the
\* loop goes on
PublishErrorGivesUp ==
    /\ pc = "Publishing"
    /\ metrics' = recordFlush(metrics, FALSE, Len(calls[Len(calls)].items))
    /\ AfterFlush(TRUE)
    /\ UNCHANGED <<strategy, config, requested, lastCall, sent, published,
                   dataChan, closed, written, cancelled, errChan,
                   final, calls, inflight, ticks>>

\* the blocked send completes once the consumer has made room
PublishError ==
    /\ pc = "Publishing"
    /\ Len(errChan) < ErrChanSize
    /\ errChan' = Append(errChan, Len(calls))
    /\ published' = Append(published, Len(calls))
    /\ metrics' = recordFlush(metrics, FALSE, Len(calls[Len(calls)].items))
    /\ AfterFlush(TRUE)
    /\ UNCHANGED <<strategy, config, requested, lastCall, sent,
                   dataChan, closed, written, cancelled,
                   final, calls, inflight, ticks>>

\* ------------------------------------------------------------ specification
Next ==
    \/ \E p \in ProducersOf(strategy), k \in KeysOf(strategy) : Write(p, k)
    \/ CloseDataChan
    \/ Cancel
    \/ ReadError
    \/ Start
    \/ ReceiveItem
    \/ TimerTick
    \/ ReceiveClose
    \/ ObserveCancel
    \/ FlushReturnOk
    \/ FlushReturnErr
    \/ PublishError

Spec == Init /\ [][Next]_vars

SpecStandard == InitStandard /\ [][Next]_vars

SpecDedup == InitDedup /\ [][Next]_vars

\* ------------------------------------------------------------- scheduling
\* the loop goroutine takes a step whenever one of its select cases is ready
Loop ==
    \/ Start
    \/ ReceiveItem
    \/ TimerTick
    \/ ReceiveClose
    \/ ObserveCancel
    \/ PublishError

\* the flush function returns
FlushReturns == FlushReturnOk \/ FlushReturnErr

\* the loop runs when it can, every flush call returns, the error channel
\* has a consumer, and the producers close the data channel when done
Fairness ==
    /\ WF_vars(Loop)
    /\ WF_vars(FlushReturns)
    /\ WF_vars(ReadError)
    /\ WF_vars(CloseDataChan)

\* the run liveness is checked on: the standard pipeline fed by one
\* producer, everything else as in Next
NextLive ==
    \/ \E k \in KeysOf(strategy) : Write(1, k)
    \/ CloseDataChan
    \/ Cancel
    \/ ReadError
    \/ Loop
    \/ FlushReturns

SpecLive == InitStandard /\ [][NextLive]_vars /\ Fairness

\* ------------------------------------------------- repeated and late calls
\* Start() on a pipeline that was started before: safe to call again, the
\* call changes nothing and reports no failure
StartAgain ==
    /\ pc \in {"Select", "Flushing", "Publishing", "Stopped"}
    /\ lastCall' = [op |-> "Start", err |-> "nil"]
    /\ UNCHANGED <<strategy, config, requested, sent, published,
                   dataChan, closed, written, cancelled,
                   pc, final, batchData, calls, inflight, errChan, errClosed,
                   metrics, ticks, result>>

\* dataChan <- item after close(dataChan): a send on a closed channel
\* panics; a writer that recovers goes on, an unrecovered panic ends the
\* process and the loop with it
WriteAfterClose ==
    /\ closed
    /\ pc # "Crashed"
    /\ lastCall' = [op |-> "Write", err |-> "panic"]
    /\ \E recovered \in BOOLEAN : pc' = IF recovered THEN pc ELSE "Crashed"
    /\ UNCHANGED <<strategy, config, requested, sent, published,
                   dataChan, closed, written, cancelled,
                   final, batchData, calls, inflight, errChan, errClosed,
                   metrics, ticks, result>>

NextApi ==
    \/ Next
    \/ StartAgain
    \/ WriteAfterClose

SpecApi == InitStandard /\ [][NextApi]_vars

\* ---------------------------------------------------------- configuration
MinBufferSize == 10     \* SetBufferSize: 10-10000
MinFlushSize == 1       \* SetFlushSize: 1-1000
MinFlushInterval == 1   \* SetFlushInterval: 1ms-60s, in milliseconds

AtLeast(x, m) == IF x < m THEN m ELSE x

\* Validate(): a parameter below its range is adjusted to the minimum valid
\* value, the configuration is returned, there is no error result
Validate(c) ==
    [BufferSize |-> AtLeast(c.BufferSize, MinBufferSize),
     FlushSize |-> AtLeast(c.FlushSize, MinFlushSize),
     FlushInterval |-> AtLeast(c.FlushInterval, MinFlushInterval)]

\* validateConfig: the error of the first check that fails, or nil
validateConfig(c) ==
    IF c.BufferSize < c.FlushSize * 2 THEN "BufferSize"
    ELSE IF c.FlushSize = 0 THEN "FlushSize"
    ELSE IF c.FlushInterval <= 0 THEN "FlushInterval"
    ELSE "nil"

\* a PipelineConfig literal as the caller wrote it; BufferSize and FlushSize
\* are unsigned, a time.Duration can be negative
InitConfig ==
    /\ strategy = "standard"
    /\ requested \in [BufferSize : 0..(MinBufferSize + MaxBufferSize),
                      FlushSize : 0..MaxFlushSize,
                      FlushInterval : (-1)..(MinFlushInterval + 1)]
    /\ config = requested
    /\ lastCall = NoCall
    /\ sent = [p \in ProducersOf(strategy) |-> 0]
    /\ published = <<>>
    /\ dataChan = <<>>
    /\ closed = FALSE
    /\ written = <<>>
    /\ cancelled = FALSE
    /\ pc = "Config"
    /\ final = FALSE
    /\ batchData = initBatchData(strategy)
    /\ calls = <<>>
    /\ inflight = 0
    /\ errChan = <<>>
    /\ errClosed = FALSE
    /\ metrics = [itemsAccepted |-> 0, batchesFlushed |-> 0, flushErrors |-> 0]
    /\ ticks = 0
    /\ result = "none"

\* validConfig := config.Validate()
CallValidate ==
    /\ pc = "Config"
    /\ config' = Validate(config)
    /\ lastCall' = [op |-> "Validate", err |-> "nil"]
    /\ UNCHANGED <<strategy, requested, sent, published,
                   dataChan, closed, written, cancelled,
                   pc, final, batchData, calls, inflight, errChan, errClosed,
                   metrics, ticks, result>>

\* err := validateConfig(config)
CallValidateConfig ==
    /\ pc = "Config"
    /\ lastCall' = [op |-> "validateConfig", err |-> validateConfig(config)]
    /\ UNCHANGED <<strategy, config, requested, sent, published,
                   dataChan, closed, written, cancelled,
                   pc, final, batchData, calls, inflight, errChan, errClosed,
                   metrics, ticks, result>>

\* NewStandardPipeline(config, flushFunc): returns the pipeline, there is
\* no error result
NewStandardPipeline ==
    /\ pc = "Config"
    /\ pc' = "Created"
    /\ lastCall' = [op |-> "NewStandardPipeline", err |-> "nil"]
    /\ UNCHANGED <<strategy, config, requested, sent, published,
                   dataChan, closed, written, cancelled,
                   final, batchData, calls, inflight, errChan, errClosed,
                   metrics, ticks, result>>

NextConfig ==
    \/ CallValidate
    \/ CallValidateConfig
    \/ NewStandardPipeline

SpecConfig == InitConfig /\ [][NextConfig]_vars

TypeOK ==
    /\ strategy \in {"standard", "dedup"}
    /\ pc \in {"Config", "Created", "Select", "Flushing", "Publishing",
              "Stopped", "Crashed"}
    /\ result \in {"none", "ok", "cancelled"}
    /\ pc # "Config" => Len(dataChan) <= config.BufferSize
    /\ Len(errChan) <= ErrChanSize
    /\ inflight \in 0..1
    /\ ticks \in 0..MaxTicks
    /\ lastCall \in [op : {"none", "Start", "Write", "Validate",
                          "validateConfig", "NewStandardPipeline"},
                     err : {"nil", "panic", "BufferSize", "FlushSize",
                            "FlushInterval"}]
    /\ sent \in [ProducersOf(strategy) -> 0..MaxWrites]
    /\ \A i \in DOMAIN published : published[i] \in DOMAIN calls

\* ------------------------------------------------------- history helpers
RECURSIVE ConcatItems(_)
ConcatItems(cs) ==
    IF cs = <<>> THEN <<>>
    ELSE ConcatItems(SubSeq(cs, 1, Len(cs) - 1)) \o cs[Len(cs)].items

\* every item handed to the flush function so far, in call order
Flushed == ConcatItems(calls)

ItemSet(seq) == {seq[i] : i \in DOMAIN seq}

Ceil(n, b) == (n + b - 1) \div b

\* the items that arrived between the previous flush boundary and call i
Window(i) ==
    SubSeq(written, (IF i = 1 THEN 0 ELSE calls[i - 1].upto) + 1, calls[i].upto)

LastCall == calls[Len(calls)]

\* ------------------------------------------------------------------ claims

C2_Original ==
    (strategy = "standard" /\ result = "ok")
        => Len(calls) = Ceil(Len(written), config.FlushSize)

\* C2 amended: after N items and a clean shutdown the flush function has been
\* called at least ceil(N / FlushSize) times, and exactly that often when no
\* flush was triggered by the timer; N = 0 gives no call.
C2_BatchCount ==
    (strategy = "standard" /\ result = "ok") =>
        /\ Len(calls) >= Ceil(Len(written), config.FlushSize)
        /\ (\A i \in DOMAIN calls : calls[i].trigger # "timer")
              => Len(calls) = Ceil(Len(written), config.FlushSize)
        /\ written = <<>> => calls = <<>>

C2_Witness ==
    /\ strategy = "standard"
    /\ result = "ok"
    /\ Len(written) = 3
    /\ config.FlushSize = 2
    /\ Len(calls) = 2
    /\ \A i \in DOMAIN calls : calls[i].trigger # "timer"

C4_TimerFlush ==
    [][(ticks' = ticks + 1 /\ ~isBatchEmpty(strategy, batchData)) =>
          /\ batchCount(strategy, batchData) < config.FlushSize
          /\ pc' = "Flushing"
          /\ Len(calls') = Len(calls) + 1
          /\ calls'[Len(calls')].trigger = "timer"
          /\ ItemSet(calls'[Len(calls')].items) = batchItems(strategy, batchData)
          /\ Len(calls'[Len(calls')].items) = batchCount(strategy, batchData)]_vars

C4_Witness ==
    /\ calls # <<>>
    /\ LastCall.trigger = "timer"
    /\ Len(LastCall.items) < config.FlushSize
    /\ LastCall.outcome = "ok"
    /\ batchCount(strategy, batchData) = 0

\* C5: a timer tick that finds the batch empty calls no flush function,
\* publishes no error and leaves the batch, the counters and the loop's
\* position as they are; only the timer is rearmed.
C5_EmptyTickNoop ==
    [][(ticks' = ticks + 1 /\ isBatchEmpty(strategy, batchData)) =>
          UNCHANGED <<calls, inflight, errChan, errClosed, batchData, metrics,
                      pc, final, result, dataChan>>]_vars

C5_Witness ==
    /\ ticks >= 1
    /\ calls = <<>>
    /\ pc = "Select"
    /\ written # <<>>

\* C6: when the loop finds the data channel closed and drained, a non-empty
\* pending batch gets exactly one more flush, carrying all of its items, and
\* the loop stops only after that flush has returned; an empty pending batch
\* gets no flush and the loop stops at once.
C6_ShutdownFlush ==
    /\ [][(~final /\ final') =>
             IF isBatchEmpty(strategy, batchData)
             THEN calls' = calls /\ pc' = "Stopped" /\ result' = "ok"
             ELSE /\ Len(calls') = Len(calls) + 1
                  /\ calls'[Len(calls')].trigger = "close"
                  /\ ItemSet(calls'[Len(calls')].items)
                         = batchItems(strategy, batchData)
                  /\ Len(calls'[Len(calls')].items)
                         = batchCount(strategy, batchData)
                  /\ pc' = "Flushing"]_vars
    /\ [][final => Len(calls') = Len(calls)]_vars
    /\ [](result = "ok" =>
             /\ final
             /\ inflight = 0
             /\ \A i \in DOMAIN calls : calls[i].outcome # "running")

C6_Witness ==
    /\ result = "ok"
    /\ Len(calls) >= 2
    /\ LastCall.trigger = "close"
    /\ Len(LastCall.items) >= 2

\* C7: an arrival that fills the batch starts the flush in the same step and
\* nothing is taken from the data channel while it runs; so a waiting loop
\* holds 0..FlushSize-1 items and every batch passed to the flush function
\* holds 1..FlushSize items.
C7_SizeFlushAndBound ==
    /\ [](pc \in {"Created", "Select"} =>
             batchCount(strategy, batchData) \in 0..(config.FlushSize - 1))
    /\ [](\A i \in DOMAIN calls :
             Len(calls[i].items) \in 1..config.FlushSize)
    /\ [][(received' = received + 1
             /\ isBatchFull(strategy, batchData', config.FlushSize)) =>
             /\ pc' = "Flushing"
             /\ Len(calls') = Len(calls) + 1
             /\ calls'[Len(calls')].trigger = "size"
             /\ Len(calls'[Len(calls')].items) = config.FlushSize]_vars
    /\ [][(pc = "Flushing" \/ pc = "Publishing") => (received' = received)]_vars

C7_Witness ==
    /\ pc = "Flushing"
    /\ LastCall.trigger = "size"
    /\ Len(LastCall.items) = config.FlushSize
    /\ config.FlushSize >= 2
    /\ dataChan # <<>>

CallIds(i) == {x.id : x \in ItemSet(calls[i].items)}

C10_FailureDoesNotStop ==
    /\ [][Len(errChan') = Len(errChan) + 1 =>
             pc' = IF final THEN "Stopped" ELSE "Select"]_vars
    /\ [](pc = "Stopped" => (final \/ result = "cancelled"))
    /\ [](result \in {"none", "ok", "cancelled"})
    /\ [](result = "ok" =>
             \A n \in DOMAIN written : \E i \in DOMAIN calls :
                 /\ (IF i = 1 THEN 0 ELSE calls[i - 1].upto) < n
                 /\ n <= calls[i].upto
                 /\ IF strategy = "standard"
                    THEN written[n] \in ItemSet(calls[i].items)
                    ELSE \E x \in ItemSet(calls[i].items) :
                             KeyFunc(x) = KeyFunc(written[n]))

C10_Witness ==
    /\ result = "ok"
    /\ \E i, j \in DOMAIN calls :
          /\ i < j
          /\ calls[i].outcome = "err"
          /\ calls[j].outcome = "ok"
          /\ calls[j].trigger = "size"

\* indices of the flush calls that returned an error, in call order
FailedCalls == SelectSeq([i \in 1..Len(calls) |-> i],
                         LAMBDA i : calls[i].outcome = "err")

\* C11: every flush call that returns an error publishes exactly one error
\* to the error channel, in flush order, and a successful call publishes
\* none: the errors published so far, followed by the one whose send is
\* still blocked on a full channel, are exactly the failed calls.
C11_EveryFailurePublished ==
    published \o (IF pc = "Publishing" THEN <<Len(calls)>> ELSE <<>>)
        = FailedCalls

C11_Witness ==
    /\ Len(published) = 2
    /\ \E i \in DOMAIN calls : calls[i].outcome = "ok"

\* the flushed items written by producer p as its n-th item
FlushedFrom(p, n) ==
    {i \in DOMAIN Flushed : Flushed[i].src = p /\ Flushed[i].n = n}

\* C12: with several producers writing concurrently to the one data
\* channel of a standard pipeline, after close and clean shutdown every
\* item written by every producer is in the flushed batches exactly once and
\* nothing else is, whatever the interleaving of the writes.
C12_ConcurrentProducers ==
    (strategy = "standard" /\ result = "ok") =>
        /\ \A p \in ProducersOf(strategy) : \A n \in 1..sent[p] :
               Cardinality(FlushedFrom(p, n)) = 1
        /\ Len(Flushed) = Len(written)
        /\ \A i \in DOMAIN Flushed :
               Flushed[i].n \in 1..sent[Flushed[i].src]

C12_Witness ==
    /\ strategy = "standard"
    /\ result = "ok"
    /\ Len(written) = 3
    /\ written[1].src = 2 /\ written[2].src = 1 /\ written[3].src = 2
    /\ Len(calls) >= 2

\* the step in which the loop takes the ctx.Done() case
CancelObserved == pc = "Select" /\ cancelled /\ result' = "cancelled"

C14_CancelHaltsAcceptance ==
    [][(CancelObserved \/ result = "cancelled") =>
          /\ (received' = received)
          /\ batchData' = batchData]_vars

C14_Witness ==
    /\ result = "cancelled"
    /\ dataChan # <<>>
    /\ Len(written) >= 2

StartAgainReturns == lastCall' # lastCall /\ lastCall'.op = "Start"

\* C16: Start on a pipeline that is already started, or that has stopped,
\* is rejected with a LifecycleError and leaves the loop as it is; a
\* stopped pipeline stays stopped.
C16_Original ==
    [][/\ StartAgainReturns =>
            /\ lastCall'.err = "LifecycleError"
            /\ pc' = pc /\ batchData' = batchData /\ calls' = calls
       /\ pc = "Stopped" => pc' = "Stopped"]_vars

\* C17: a configuration whose FlushSize is zero or whose FlushInterval is
\* not positive is rejected with a ConfigurationError at construction: no
\* pipeline is created from it and it is never adjusted to a valid value.
C17_Original ==
    (requested.FlushSize <= 0 \/ requested.FlushInterval <= 0) =>
        /\ pc = "Config"
        /\ config = requested
        /\ lastCall.op = "NewStandardPipeline" =>
               lastCall.err = "ConfigurationError"

\* C18: a configuration with FlushSize >= 1 and FlushInterval > 0 is
\* accepted whatever its BufferSize, also when BufferSize < 2 * FlushSize:
\* no validation rejects it.
C18_Original ==
    (requested.FlushSize >= 1 /\ requested.FlushInterval > 0) =>
        lastCall.err = "nil"

\* a write attempted on the closed data channel returns
WriteAfterCloseReturns == lastCall' # lastCall /\ lastCall'.op = "Write"

\* C19: a write on the closed data channel fails with ErrPipelineClosed for
\* that writer only: the item is not queued or batched and the pending
\* batch, the metrics and the state of the loop are unchanged.
C19_Original ==
    [][WriteAfterCloseReturns =>
          /\ lastCall'.err = "ErrPipelineClosed"
          /\ dataChan' = dataChan /\ written' = written
          /\ batchData' = batchData /\ metrics' = metrics
          /\ pc' = pc]_vars

\* C20: the data channel never holds more than BufferSize items; a write
\* on a full channel blocks, for every producer alike, so no write is
\* reported while the channel is full; an item reported as written is
\* queued at once, and an item leaves the queue only from its head and
\* into the batch.
C20_Backpressure ==
    [][/\ Len(dataChan') <= config.BufferSize
       /\ Len(dataChan) = config.BufferSize => written' = written
       /\ written' # written =>
              /\ \E p \in ProducersOf(strategy) : sent'[p] = sent[p] + 1
              /\ dataChan' = Append(dataChan, written'[Len(written')])
       /\ (written' = written /\ dataChan' # dataChan) =>
              /\ dataChan' = Tail(dataChan)
              /\ Head(dataChan) \in batchItems(strategy, batchData')]_vars

C20_Witness ==
    /\ Len(dataChan) = config.BufferSize
    /\ pc = "Flushing"
    /\ ~closed
    /\ Len(written) >= 2
    /\ Len(written) < MaxWrites

\* C21: while the send of a flush error waits on the full error channel the
\* loop makes no progress: it takes no item and starts no flush, and a
\* producer that finds the data channel full stays blocked; the wait ends
\* only after the consumer has made room, and it ends with the waiting
\* error sent to the channel, not dropped.
C21_BlockedPublish ==
    [][pc = "Publishing" =>
          /\ (received' = received)
          /\ calls' = calls
          /\ batchData' # batchData => pc' # "Publishing"
          /\ Len(dataChan) = config.BufferSize => written' = written
          /\ pc' # "Publishing" =>
                /\ Len(errChan) < ErrChanSize
                /\ errChan' = Append(errChan, Len(calls))
                /\ published' = Append(published, Len(calls))]_vars

C21_Witness ==
    /\ pc = "Publishing"
    /\ Len(errChan) = ErrChanSize
    /\ Len(dataChan) = config.BufferSize
    /\ ~closed

\* C22: the error channel is closed only when the loop has stopped, after
\* the final flush has returned and its error has been sent; at that point
\* every failed flush has been sent to the channel, and nothing is sent to
\* it afterwards.
C22_ErrorChanClosedLast ==
    [][/\ errClosed' =>
             /\ pc' = "Stopped"
             /\ inflight' = 0
             /\ (published' = FailedCalls')
       /\ errClosed => (errClosed' /\ published' = published)]_vars

C22_Witness ==
    /\ errClosed
    /\ result = "ok"
    /\ published # <<>>
    /\ published[Len(published)] = Len(calls)
    /\ calls[Len(calls)].trigger = "close"
    /\ Len(calls) >= 2

\* flush calls whose handling by the loop is finished: the calls that have
\* returned, less the one whose error is still waiting to be sent
Completed ==
    Cardinality({i \in DOMAIN calls : calls[i].outcome # "running"})
        - (IF pc = "Publishing" THEN 1 ELSE 0)

PendingKeys(b) == {KeyFunc(x) : x \in b}

\* the step in which the loop takes an item from the data channel
ItemReceived == dataChan # <<>> /\ (received' = received + 1)

C25_Original ==
    \A i \in DOMAIN calls :
        LET w == Window(i)
            items == calls[i].items
        IN  ItemSet(items) =
                {w[n] : n \in {m \in DOMAIN w :
                     \A l \in DOMAIN w : KeyFunc(w[l]) = KeyFunc(w[m]) => m <= l}}

Delivered ==
    /\ dataChan = <<>>
    /\ isBatchEmpty(strategy, batchData)
    /\ \A i \in DOMAIN calls : calls[i].outcome # "running"
    /\ written # <<>> => (calls # <<>> /\ LastCall.upto = Len(written))
    /\ strategy = "standard" => Flushed = written

\* C28 as stated: once the data channel is closed the loop never stops
\* while items written before the close are undelivered.
C28_Original ==
    [][(closed /\ pc # "Stopped" /\ pc' = "Stopped") => Delivered']_vars

\* C28: once the data channel is closed the loop reaches Stopped; when it
\* stops with a nil result everything written has been taken into batches
\* and flushed; a stop through cancellation can leave items undelivered.
C28_DrainsThenStops ==
    /\ closed ~> (pc = "Stopped")
    /\ [][(pc # "Stopped" /\ pc' = "Stopped" /\ result' = "ok") =>
             (closed /\ Delivered')]_vars

C28_Witness ==
    /\ result = "ok"
    /\ ~cancelled
    /\ Len(written) = MaxWrites
    /\ Len(calls) >= 2
    /\ LastCall.trigger = "size"

\* C29: once the loop has stopped it stays stopped: the flush function is
\* not called again, no error is sent, the pending batch and the counters
\* keep their values, and no item is taken from the data channel, whatever
\* is written afterwards.
C29_StoppedIsTerminal ==
    [][pc = "Stopped" =>
          /\ pc' = "Stopped"
          /\ calls' = calls
          /\ published' = published
          /\ errChan' = errChan \/ (errChan # <<>> /\ errChan' = Tail(errChan))
          /\ batchData' = batchData
          /\ metrics' = metrics
          /\ result' = result
          /\ (received' = received)]_vars

C29_Witness ==
    /\ pc = "Stopped"
    /\ ~closed
    /\ ticks < MaxTicks
    /\ ~isBatchEmpty(strategy, batchData)
    /\ Len(dataChan) = config.BufferSize
    /\ Len(written) = MaxWrites

\* a step of the loop, the flush function or the consumer of errors
EngineStep == Loop \/ FlushReturns \/ ReadError

====
